---------------------------- MODULE Spec2Model ----------------------------
(***************************************************************************)
(* Model of the useTasks hook (src/src/hooks/useTasks.ts): the task        *)
(* collection, its mutation API, the single-slot delete/undo cell and the  *)
(* one-time asynchronous load.                                             *)
(*                                                                         *)
(* The hook keeps five useState cells.  A set-call does not change a cell: *)
(* it appends an update to the cell's queue, and the next render applies   *)
(* the queues in call order (updater functions run then, on the value the  *)
(* earlier updates of the queue produced).  Callbacks read the cells of    *)
(* the last render.  Both are modelled: the cells are the variables tasks, *)
(* loading, error, lastDeleted and undoOpen, the queues are tasksQ,        *)
(* loadingQ, errorQ, lastDeletedQ and undoOpenQ, and Render applies them.  *)
(*                                                                         *)
(* JavaScript values are records [k, n, s]: k is the kind, n the number or *)
(* instant, s the text.  A Task carries the fields id, revenue, timeTaken, *)
(* status, createdAt and completedAt; title, priority and notes are        *)
(* carried by the same object spreads and defaults and no operation reads  *)
(* them, so they are left out of the record.                               *)
(***************************************************************************)
EXTENDS Integers, Sequences, FiniteSets, TLC

VARIABLES
    tasks,          \* useState<Task[]>([])            line 42
    loading,        \* useState(true)                  line 43
    error,          \* useState<string | null>(null)   line 44, <<>> is null
    lastDeleted,    \* useState<Task | null>(null)     line 47, <<>> is null
    undoOpen,       \* useState(false)                 line 48
    tasksQ,         \* updates queued on tasks, applied by the next render
    loadingQ,       \* values queued on loading
    errorQ,         \* values queued on error
    lastDeletedQ,   \* values queued on lastDeleted
    undoOpenQ,      \* values queued on undoOpen
    isMounted,      \* the effect's liveness flag      line 79
    loadPc,         \* where loadTasks stands: "fetch", "json" or "done"
    now,            \* the clock read by Date.now() and new Date()
    uuidCount,      \* how many identifiers crypto.randomUUID() has handed out
    response,       \* what the external source answered, once it has
    scenario,       \* which family of inputs the environment draws from
    anchor,         \* observer: the cells when the recorded calls began
    log             \* observer: the calls recorded since the anchor

vars == <<tasks, loading, error, lastDeleted, undoOpen, tasksQ, loadingQ,
          errorQ, lastDeletedQ, undoOpenQ, isMounted, loadPc, now, uuidCount,
          response, scenario, anchor, log>>

cells == <<tasks, loading, error, lastDeleted, undoOpen>>
queues == <<tasksQ, loadingQ, errorQ, lastDeletedQ, undoOpenQ>>

----------------------------------------------------------------------------
(* Bounds of the model. *)

MaxTasks == 2       \* scenario "ops": addTask and undoDelete are called while the collection is smaller
MaxTasksData == 1   \* the same in the other scenarios
MaxQueue == 2       \* updates queued on one cell between two renders
MaxUuid == 1        \* identifiers crypto.randomUUID() hands out
MaxClock == 2       \* ticks of the clock
LogLen == 3         \* calls the observer records in a row

(* Program constants. *)

DAY == 86400000     \* 24 * 3600 * 1000, lines 55 and 60
FallbackCount == 50 \* generateSalesTasks(50), line 88

----------------------------------------------------------------------------
(* JavaScript values. *)

Num(n) == [k |-> "num", n |-> n, s |-> ""]
Str(s) == [k |-> "str", n |-> 0, s |-> s]
Iso(n) == [k |-> "iso", n |-> n, s |-> ""]      \* the ISO-8601 text of instant n
Uuid(n) == [k |-> "uuid", n |-> n, s |-> ""]    \* the n-th text randomUUID() returns
NaN == [k |-> "nan", n |-> 0, s |-> ""]
PosInf == [k |-> "inf", n |-> 0, s |-> ""]
NegInf == [k |-> "ninf", n |-> 0, s |-> ""]
Undef == [k |-> "undef", n |-> 0, s |-> ""]
Absent == [k |-> "absent", n |-> 0, s |-> ""]   \* the key is not in the object

\* Number(v)
ToNumber(v) ==
    IF v.k \in {"num", "inf", "ninf"} THEN v ELSE NaN

\* Number.isFinite(v) of a number v
IsFinite(v) == v.k = "num"

\* v > 0
GtZero(v) ==
    LET x == ToNumber(v) IN (x.k = "num" /\ x.n > 0) \/ x.k = "inf"

\* v <= 0
LeZero(v) ==
    LET x == ToNumber(v) IN (x.k = "num" /\ x.n <= 0) \/ x.k = "ninf"

\* the truth value of v in a condition
Truthy(v) ==
    CASE v.k \in {"undef", "nan"} -> FALSE
      [] v.k = "num" -> v.n # 0
      [] v.k = "str" -> v.s # ""
      [] OTHER -> TRUE

\* a ?? b
Coalesce(a, b) == IF a = Undef THEN b ELSE a

\* new Date(v).getTime(): the instant, or NaN for an Invalid Date
DateOf(v) ==
    CASE v.k = "iso" -> Num(v.n)
      [] v.k = "num" -> Num(v.n)
      [] OTHER -> NaN

\* d.toISOString() of a valid date; an Invalid Date throws RangeError
ToISOString(d) == Iso(d.n)

----------------------------------------------------------------------------
(* Tasks and patches. *)

Task(id, revenue, timeTaken, status, createdAt, completedAt) ==
    [id |-> id, revenue |-> revenue, timeTaken |-> timeTaken,
     status |-> status, createdAt |-> createdAt, completedAt |-> completedAt]

NoTask == Task(Undef, Undef, Undef, Undef, Undef, Undef)
NoPatch == Task(Absent, Absent, Absent, Absent, Absent, Absent)

Done == Str("Done")
Todo == Str("Todo")

\* { ...t, ...patch }
Spread(t, patch) ==
    LET pick(a, b) == IF b = Absent THEN a ELSE b
    IN  Task(pick(t.id, patch.id), pick(t.revenue, patch.revenue),
             pick(t.timeTaken, patch.timeTaken), pick(t.status, patch.status),
             pick(t.createdAt, patch.createdAt),
             pick(t.completedAt, patch.completedAt))

Ids(ts) == {ts[i].id : i \in 1..Len(ts)}

\* prev.find(t => t.id === id) || null, as a sequence of at most one task
Find(ts, id) ==
    IF \E i \in 1..Len(ts) : ts[i].id = id
    THEN <<ts[CHOOSE i \in 1..Len(ts) :
                 ts[i].id = id /\ \A j \in 1..(i - 1) : ts[j].id # id]>>
    ELSE <<>>

\* prev.filter(t => t.id !== id)
RECURSIVE Filter(_, _)
Filter(ts, id) ==
    IF ts = <<>> THEN <<>>
    ELSE IF Head(ts).id = id THEN Filter(Tail(ts), id)
         ELSE <<Head(ts)>> \o Filter(Tail(ts), id)


----------------------------------------------------------------------------
(* normalizeTasks, lines 50-75.  The result is [ok, tasks, uuid, message]:  *)
(* ok is FALSE when the map throws, and message is then the exception's.   *)

IsNullItem(t) == "k" \in DOMAIN t    \* the element is null, not an object

\* const created = ..., lines 53-55
CreatedOf(t, idx, clk) ==
    IF Truthy(t.createdAt) THEN DateOf(t.createdAt)
    ELSE Num(clk - (idx + 1) * DAY)

\* const completed = ..., lines 57-61, for a valid created
CompletedOf(t, created) ==
    IF Truthy(t.completedAt) THEN t.completedAt
    ELSE IF t.status = Done THEN ToISOString(Num(created.n + DAY))
         ELSE Undef

\* revenue: ..., line 66
NormalRevenue(t) ==
    IF IsFinite(ToNumber(t.revenue)) THEN ToNumber(t.revenue) ELSE Num(0)

\* timeTaken: ..., line 67
NormalTimeTaken(t) ==
    IF GtZero(ToNumber(t.timeTaken)) THEN ToNumber(t.timeTaken) ELSE Num(1)

\* the object of lines 63-73, for an element whose created date is valid
NormalTask(t, idx, clk, uc) ==
    LET created == CreatedOf(t, idx, clk)
    IN  Task(Coalesce(t.id, Uuid(uc + 1)), NormalRevenue(t),
             NormalTimeTaken(t), Coalesce(t.status, Todo),
             ToISOString(created), CompletedOf(t, created))

RECURSIVE NormalizeFrom(_, _, _, _, _)
NormalizeFrom(items, idx, clk, uc, acc) ==
    IF idx >= Len(items)
    THEN [ok |-> TRUE, tasks |-> acc, uuid |-> uc, message |-> Undef]
    ELSE LET t == items[idx + 1]
         IN  IF IsNullItem(t)
             THEN [ok |-> FALSE, tasks |-> <<>>, uuid |-> uc,
                   message |-> Str("Cannot read properties of null")]
             ELSE IF CreatedOf(t, idx, clk) = NaN
             THEN [ok |-> FALSE, tasks |-> <<>>, uuid |-> uc,
                   message |-> Str("Invalid time value")]
             ELSE NormalizeFrom(items, idx + 1, clk,
                                IF t.id = Undef THEN uc + 1 ELSE uc,
                                Append(acc, NormalTask(t, idx, clk, uc)))

\* normalizeTasks(input): Array.isArray(input) ? input : [], then the map
normalizeTasks(input, clk, uc) ==
    NormalizeFrom(IF input.kind = "array" THEN input.items ELSE <<>>,
                  0, clk, uc, <<>>)

----------------------------------------------------------------------------
(* The updater functions handed to setTasks.  Each returns                 *)
(* [tasks, uuid, held, open]: the new collection, the identifier count,    *)
(* and the values the updater itself hands to setLastDeleted and           *)
(* setUndoOpen while it runs.                                              *)

Result(ts, uc, held, open) ==
    [tasks |-> ts, uuid |-> uc, held |-> held, open |-> open]

\* addTask's updater, lines 126-132
addUpdater(task, prev, clk, uc) ==
    LET id == Coalesce(task.id, Uuid(uc + 1))
        timeTaken == IF LeZero(task.timeTaken) THEN Num(1) ELSE task.timeTaken
        createdAt == ToISOString(Num(clk))
        completedAt == IF task.status = Done THEN createdAt ELSE Undef
    IN  Result(Append(prev, Task(id, task.revenue, timeTaken, task.status,
                                 createdAt, completedAt)),
               IF task.id = Undef THEN uc + 1 ELSE uc, <<>>, <<>>)

\* a variant that patches every task, whatever its id, which C16 tells from
\* the code
updateOneAnyId(t, id, patch, clk) ==
    LET updated == Spread(t, patch)
        stamped == IF t.status # Done /\ updated.status = Done
                   THEN [updated EXCEPT !.completedAt = ToISOString(Num(clk))]
                   ELSE updated
    IN  IF LeZero(stamped.timeTaken)
        THEN [stamped EXCEPT !.timeTaken = Num(1)]
        ELSE stamped

\* a variant that clears completedAt when the status leaves Done, which C11
\* tells from the code
updateOneClearing(t, id, patch, clk) ==
    IF t.id # id THEN t
    ELSE LET updated == Spread(t, patch)
         IN  IF t.status = Done /\ updated.status # Done
             THEN [updated EXCEPT !.completedAt = Undef]
             ELSE updated

\* the body of the map of updateTask, lines 138-144
updateOne(t, id, patch, clk) ==
    IF t.id # id THEN t
    ELSE LET updated == Spread(t, patch)
             stamped == IF t.status # Done /\ updated.status = Done
                        THEN [updated EXCEPT !.completedAt = ToISOString(Num(clk))]
                        ELSE updated
         IN  IF LeZero(stamped.timeTaken)
             THEN [stamped EXCEPT !.timeTaken = Num(1)]
             ELSE stamped

\* updateTask's updater, lines 136-146
updateUpdater(id, patch, prev, clk, uc) ==
    Result([i \in 1..Len(prev) |-> updateOne(prev[i], id, patch, clk)],
           uc, <<>>, <<>>)

\* a variant that does not open the undo window, which C18 tells from the
\* code
deleteUpdaterNotOpening(id, prev, uc) ==
    Result(Filter(prev, id), uc, <<Find(prev, id)>>, <<>>)

\* a variant that leaves the holding cell alone when no task has the id,
\* which C15 tells from the code
deleteUpdaterIfFound(id, prev, uc) ==
    IF Find(prev, id) = <<>> THEN Result(prev, uc, <<>>, <<>>)
    ELSE Result(Filter(prev, id), uc, <<Find(prev, id)>>, <<TRUE>>)

\* deleteTask's updater, lines 151-156
deleteUpdater(id, prev, uc) ==
    Result(Filter(prev, id), uc, <<Find(prev, id)>>, <<TRUE>>)

\* undoDelete's updater, line 162
undoUpdater(held, prev, uc) ==
    Result(Append(prev, held), uc, <<>>, <<>>)

\* one queued update of tasks: an updater or a value; eager when React ran
\* the updater at the call, and data is then the state it computed
Update(op, id, task, patch, data) ==
    [op |-> op, id |-> id, task |-> task, patch |-> patch, data |-> data,
     eager |-> FALSE]

Eager(u, data) == [u EXCEPT !.eager = TRUE, !.data = data]

ApplyUpdate(u, prev, clk, uc) ==
    IF u.eager THEN Result(u.data, uc, <<>>, <<>>)
    ELSE CASE u.op = "add" -> addUpdater(u.task, prev, clk, uc)
           [] u.op = "update" -> updateUpdater(u.id, u.patch, prev, clk, uc)
           [] u.op = "delete" -> deleteUpdater(u.id, prev, uc)
           [] u.op = "undo" -> undoUpdater(u.task, prev, uc)
           [] OTHER -> Result(u.data, uc, <<>>, <<>>)   \* "set": a value

\* the queue of tasks applied in call order, as a render does
RECURSIVE RunQueue(_, _, _, _, _, _)
RunQueue(q, prev, clk, uc, held, open) ==
    IF q = <<>> THEN Result(prev, uc, held, open)
    ELSE LET r == ApplyUpdate(Head(q), prev, clk, uc)
         IN  RunQueue(Tail(q), r.tasks, clk, r.uuid,
                      held \o r.held, open \o r.open)

\* the last value queued on a cell, or the cell's value when none is
LastOf(q, cell) == IF q = <<>> THEN cell ELSE q[Len(q)]


----------------------------------------------------------------------------
(* The fallback generator, generateSalesTasks of @/utils/seed.             *)

Seed(i) == [k |-> "seed", n |-> i, s |-> ""]    \* the id of the i-th generated task

generateSalesTasks(n) ==
    [i \in 1..n |-> Task(Seed(i), Num(100), Num(1), Todo, Iso(0), Undef)]

----------------------------------------------------------------------------
(* The metrics memo, lines 107-123: a function of the collection of the    *)
(* render.  Of a non-empty collection, totalTimeTaken is computed here;    *)
(* the other five fields are computed by functions of @/utils/logic, and   *)
(* each is carried as the name of the function that computes it.           *)

\* INITIAL_METRICS, lines 32-39
INITIAL_METRICS ==
    [totalRevenue |-> Num(0), totalTimeTaken |-> Num(0),
     timeEfficiencyPct |-> Num(0), revenuePerHour |-> Num(0),
     averageROI |-> Num(0), performanceGrade |-> Str("Needs Improvement")]

\* a + b of two numbers (undefined becomes NaN)
Plus(a, b) ==
    LET x == ToNumber(a)
        y == ToNumber(b)
    IN  CASE x.k = "nan" \/ y.k = "nan" -> NaN
          [] x.k = "num" /\ y.k = "num" -> Num(x.n + y.n)
          [] x.k = "num" -> y
          [] y.k = "num" -> x
          [] x.k = y.k -> x
          [] OTHER -> NaN          \* Infinity + -Infinity

\* tasks.reduce((s, t) => s + t.timeTaken, 0), line 110: acc is the value
\* of s before the tasks ts (the test of the sum makes it a value before the
\* next task is looked at)
RECURSIVE ReduceTimeTaken(_, _)
ReduceTimeTaken(ts, acc) ==
    IF ts = <<>> THEN acc
    ELSE LET sum == Plus(acc, Head(ts).timeTaken)
         IN  IF sum.k = "nan"
             THEN ReduceTimeTaken(Tail(ts), NaN)
             ELSE ReduceTimeTaken(Tail(ts), sum)

ComputedBy(f) == [k |-> "computed", n |-> 0, s |-> f]

\* a variant without the short-circuit on the empty collection, which C14
\* tells from the code
metricsAlwaysComputed(ts) ==
    [totalRevenue |-> ComputedBy("computeTotalRevenue"),
     totalTimeTaken |-> ReduceTimeTaken(ts, Num(0)),
     timeEfficiencyPct |-> ComputedBy("computeTimeEfficiency"),
     revenuePerHour |-> ComputedBy("computeRevenuePerHour"),
     averageROI |-> ComputedBy("computeAverageROI"),
     performanceGrade |-> ComputedBy("computePerformanceGrade")]

\* the body of the memo, lines 108-122
metrics(ts) ==
    IF Len(ts) = 0 THEN INITIAL_METRICS
    ELSE [totalRevenue |-> ComputedBy("computeTotalRevenue"),
          totalTimeTaken |-> ReduceTimeTaken(ts, Num(0)),
          timeEfficiencyPct |-> ComputedBy("computeTimeEfficiency"),
          revenuePerHour |-> ComputedBy("computeRevenuePerHour"),
          averageROI |-> ComputedBy("computeAverageROI"),
          performanceGrade |-> ComputedBy("computePerformanceGrade")]

----------------------------------------------------------------------------
(* What the environment hands to the hook.                                 *)

Scenarios == {"ops", "load", "values", "time"}

NewTask(id, revenue, timeTaken, status) ==
    Task(id, revenue, timeTaken, status, Undef, Undef)

\* the arguments of addTask
AddInputs ==
    CASE scenario = "ops" ->
            {NewTask(Undef, Num(100), Num(2), Todo),
             NewTask(Str("a"), Num(100), Num(2), Todo)}
      [] scenario = "load" ->
            {NewTask(Undef, Num(100), Num(2), Todo)}
      [] scenario = "values" ->
            {NewTask(Undef, Num(100), Num(2), Todo),
             NewTask(Undef, Num(100), Num(0), Todo),
             NewTask(Undef, Num(100), NaN, Todo),
             NewTask(Undef, Num(-5), Num(2), Todo)}
      [] OTHER ->
            {NewTask(Undef, Num(100), Num(2), Todo),
             NewTask(Undef, Num(100), Num(2), Done)}

\* the patches of updateTask
Patches ==
    CASE scenario = "ops" -> {}
      [] scenario = "load" ->
            {[NoPatch EXCEPT !.id = Str("b")]}
      [] scenario = "values" ->
            {[NoPatch EXCEPT !.timeTaken = Num(-1)],
             [NoPatch EXCEPT !.timeTaken = Undef],
             [NoPatch EXCEPT !.revenue = NegInf]}
      [] OTHER ->
            {[NoPatch EXCEPT !.status = Done],
             [NoPatch EXCEPT !.status = Todo],
             [NoPatch EXCEPT !.status = Done, !.createdAt = Iso(DAY)],
             [NoPatch EXCEPT !.status = Done, !.completedAt = Iso(-1)]}

\* the ids handed to updateTask and deleteTask: those of the first tasks (of
\* the generated ones, the first only), the held one, and one that names no
\* task
CallIds ==
    LET first == {tasks[i].id :
                    i \in 1..(IF Len(tasks) < MaxTasks THEN Len(tasks) ELSE MaxTasks)}
        held == {lastDeleted[i].id : i \in 1..Len(lastDeleted)}
    IN  ((first \cup held) \ {Seed(i) : i \in 2..FallbackCount}) \cup {Str("none")}

Answer(kind, items, message) ==
    [kind |-> kind, items |-> items, message |-> message]

NoAnswer == Answer("pending", <<>>, Undef)

\* fetch: answered OK, answered with a non-OK status, or rejected (with or
\* without a message)
FetchOutcomes ==
    {Answer("ok", <<>>, Undef)}
    \cup
    (IF scenario = "load"
     THEN {Answer("reject", <<>>, Str("Failed to fetch")),
           Answer("reject", <<>>, Undef),
           Answer("notok", <<>>, Str("Failed to load tasks.json (500)"))}
     ELSE {})

RawTask(id, revenue, timeTaken, status, createdAt, completedAt) ==
    Task(id, revenue, timeTaken, status, createdAt, completedAt)

Null == [k |-> "null", n |-> 0, s |-> ""]

\* res.json(): rejected, or the parsed value
Bodies ==
    CASE scenario = "ops" ->
            {Answer("array", <<RawTask(Str("a"), Num(100), Num(2), Undef, Undef, Undef)>>,
                    Undef)}
      [] scenario = "load" ->
            {Answer("unparsable", <<>>, Str("Unexpected token")),
             Answer("object", <<>>, Undef),
             Answer("array", <<>>, Undef),
             Answer("array", <<Null>>, Undef),
             Answer("array", <<RawTask(Str("a"), Num(100), Num(2), Undef, Undef, Undef),
                               RawTask(Undef, Num(100), Num(2), Undef, Undef, Undef)>>,
                    Undef)}
      [] scenario = "values" ->
            {Answer("array", <<RawTask(Str("a"), Num(-5), Num(0), Undef, Undef, Undef)>>, Undef),
             Answer("array", <<RawTask(Str("a"), Str("x"), PosInf, Undef, Undef, Undef)>>, Undef)}
      [] OTHER ->
            {Answer("array", <<RawTask(Str("a"), Num(100), Num(2), Done, Undef, Undef)>>, Undef),
             Answer("array", <<RawTask(Str("a"), Num(100), Num(2), Undef, Iso(DAY), Str("soon"))>>, Undef),
             Answer("array", <<RawTask(Str("a"), Num(100), Num(2), Undef, Str("bogus"), Undef)>>, Undef)}

----------------------------------------------------------------------------
(* The observer: the calls made in a row from a state with nothing queued. *)
(* It changes nothing of the program.                                      *)

Quiescent ==
    /\ tasksQ = <<>> /\ loadingQ = <<>> /\ errorQ = <<>>
    /\ lastDeletedQ = <<>> /\ undoOpenQ = <<>>

Snapshot == [tasks |-> tasks, lastDeleted |-> lastDeleted, undoOpen |-> undoOpen]
NoSnapshot == [tasks |-> <<>>, lastDeleted |-> <<>>, undoOpen |-> FALSE]

Call(op, id) == [op |-> op, id |-> id, q |-> Quiescent]

\* a call of the undo machine is recorded: it continues the row, or starts
\* one where nothing is queued
Record(c) ==
    IF scenario # "ops"
    THEN anchor' = anchor /\ log' = log
    ELSE \/ /\ 0 < Len(log) /\ Len(log) < LogLen
            /\ anchor' = anchor /\ log' = Append(log, c)
         \/ /\ Quiescent
            /\ anchor' = Snapshot /\ log' = <<c>>
         \/ /\ ~Quiescent /\ (log = <<>> \/ Len(log) >= LogLen)
            /\ anchor' = NoSnapshot /\ log' = <<>>

\* any other change of the collection ends the row
Forget == anchor' = NoSnapshot /\ log' = <<>>

----------------------------------------------------------------------------
(* The state after construction: the first render and the effect started.  *)

Init ==
    /\ tasks = <<>>
    /\ loading = TRUE
    /\ error = <<>>
    /\ lastDeleted = <<>>
    /\ undoOpen = FALSE
    /\ tasksQ = <<>> /\ loadingQ = <<>> /\ errorQ = <<>>
    /\ lastDeletedQ = <<>> /\ undoOpenQ = <<>>
    /\ isMounted = TRUE
    /\ loadPc = "fetch"
    /\ now = 0
    /\ uuidCount = 0
    /\ response = NoAnswer
    /\ scenario \in Scenarios
    /\ anchor = NoSnapshot
    /\ log = <<>>


----------------------------------------------------------------------------
(* Rendering.                                                              *)

\* what a render of the present queues makes of the collection
Rendered == RunQueue(tasksQ, tasks, now, uuidCount, <<>>, <<>>)

\* A render: every queue is applied in call order.  The updaters of tasks
\* run first (tasks is the first cell), and what they hand to
\* setLastDeleted and setUndoOpen joins those queues behind what the calls
\* queued, within the same render.
Render ==
    /\ isMounted
    /\ ~Quiescent
    /\ LET r == Rendered
       IN  /\ tasks' = r.tasks
           /\ uuidCount' = r.uuid
           /\ lastDeleted' = LastOf(lastDeletedQ \o r.held, lastDeleted)
           /\ undoOpen' = LastOf(undoOpenQ \o r.open, undoOpen)
    /\ loading' = LastOf(loadingQ, loading)
    /\ error' = LastOf(errorQ, error)
    /\ tasksQ' = <<>> /\ loadingQ' = <<>> /\ errorQ' = <<>>
    /\ lastDeletedQ' = <<>> /\ undoOpenQ' = <<>>
    /\ UNCHANGED <<isMounted, loadPc, now, response, scenario, anchor, log>>

----------------------------------------------------------------------------
(* setTasks(updater).  With nothing queued React may run the updater at    *)
(* once and queue the state it computed (the eager state); otherwise the   *)
(* updater is queued and runs in the next render.  heldAfter and openAfter *)
(* are what the caller hands to setLastDeleted and setUndoOpen after       *)
(* setTasks returns.                                                       *)

QueueCap == IF scenario = "ops" THEN MaxQueue ELSE 1

TaskCap == IF scenario = "ops" THEN MaxTasks ELSE MaxTasksData

\* whether React computes the state early: it may, with nothing queued
EagerChoices == IF Quiescent THEN BOOLEAN ELSE {FALSE}

MayCall ==
    /\ isMounted
    /\ Len(tasksQ) < QueueCap
    /\ Len(lastDeletedQ) < QueueCap

setTasks(u, heldAfter, openAfter) ==
    \E eager \in EagerChoices :
        IF eager
        THEN LET r == ApplyUpdate(u, tasks, now, uuidCount)
             IN  /\ tasksQ' = <<Eager(u, r.tasks)>>
                 /\ uuidCount' = r.uuid
                 /\ lastDeletedQ' = r.held \o heldAfter
                 /\ undoOpenQ' = r.open \o openAfter
        ELSE /\ tasksQ' = Append(tasksQ, u)
             /\ uuidCount' = uuidCount
             /\ lastDeletedQ' = lastDeletedQ \o heldAfter
             /\ undoOpenQ' = undoOpenQ \o openAfter

\* addTask(task), lines 125-133
addTask(task) ==
    /\ setTasks(Update("add", Undef, task, NoPatch, <<>>), <<>>, <<>>)
    /\ Forget
    /\ UNCHANGED <<cells, loadingQ, errorQ, isMounted, loadPc, now, response, scenario>>

AddTask ==
    /\ MayCall
    /\ Len(Rendered.tasks) < TaskCap
    /\ \E task \in AddInputs :
          /\ task.id = Undef => Rendered.uuid < MaxUuid
          /\ addTask(task)

\* updateTask(id, patch), lines 135-147
updateTask(id, patch) ==
    /\ setTasks(Update("update", id, NoTask, patch, <<>>), <<>>, <<>>)
    /\ Forget
    /\ UNCHANGED <<cells, loadingQ, errorQ, isMounted, loadPc, now, response, scenario>>

UpdateTask ==
    /\ MayCall
    /\ \E id \in CallIds, patch \in Patches : updateTask(id, patch)

\* deleteTask(id), lines 150-157
deleteTask(id) ==
    /\ setTasks(Update("delete", id, NoTask, NoPatch, <<>>), <<>>, <<>>)
    /\ Record(Call("delete", id))
    /\ UNCHANGED <<cells, loadingQ, errorQ, isMounted, loadPc, now, response, scenario>>

DeleteTask ==
    /\ MayCall
    /\ \E id \in CallIds : deleteTask(id)

\* the guard of undoDelete, line 161: it reads the cells of the last render
undoGuard == lastDeleted # <<>> /\ undoOpen

\* undoDelete(), lines 160-165
undoDelete ==
    /\ IF undoGuard
       THEN setTasks(Update("undo", Undef, lastDeleted[1], NoPatch, <<>>),
                     <<<<>>>>, <<FALSE>>)
       ELSE UNCHANGED <<tasksQ, uuidCount, lastDeletedQ, undoOpenQ>>
    /\ Record(Call("undo", Undef))
    /\ UNCHANGED <<cells, loadingQ, errorQ, isMounted, loadPc, now, response, scenario>>

UndoDelete ==
    /\ MayCall
    /\ undoGuard => Len(Rendered.tasks) < TaskCap
    /\ undoDelete

\* clearUndo(), lines 168-171
clearUndo ==
    /\ lastDeletedQ' = Append(lastDeletedQ, <<>>)
    /\ undoOpenQ' = Append(undoOpenQ, FALSE)
    /\ Record(Call("clear", Undef))
    /\ UNCHANGED <<cells, tasksQ, uuidCount, loadingQ, errorQ, isMounted, loadPc,
                   now, response, scenario>>

ClearUndo ==
    /\ MayCall
    /\ clearUndo


----------------------------------------------------------------------------
(* The effect and loadTasks, lines 78-101.                                 *)

\* a variant without the liveness test, which C7 tells from the code
SetRegardless(q, v) == Append(q, v)

\* if (isMounted) set(v), lines 89, 91 and 93: the queue after the line
IfMounted(q, v) == IF isMounted THEN Append(q, v) ELSE q

\* e?.message ?? 'Failed to load tasks', line 91
ErrorMessage(e) == Coalesce(e.message, Str("Failed to load tasks"))

\* a variant without the fallback, which C6 tells from the code
FinalDataAsLoaded(normalized) == normalized

\* normalized.length > 0 ? normalized : generateSalesTasks(50), lines 87-88
FinalData(normalized) ==
    IF Len(normalized) > 0 THEN normalized
    ELSE generateSalesTasks(FallbackCount)

\* a variant without the finally block, which C17 tells from the code
loadFailedNoFinally(e) ==
    /\ errorQ' = IfMounted(errorQ, <<ErrorMessage(e)>>)
    /\ loadingQ' = loadingQ
    /\ tasksQ' = tasksQ
    /\ loadPc' = "done"

\* the catch and finally blocks, lines 90-94
loadFailed(e) ==
    /\ errorQ' = IfMounted(errorQ, <<ErrorMessage(e)>>)
    /\ loadingQ' = IfMounted(loadingQ, FALSE)
    /\ tasksQ' = tasksQ
    /\ loadPc' = "done"

\* lines 89 and 93, the try block having run to its end
loadSucceeded(finalData) ==
    /\ tasksQ' = IfMounted(tasksQ, Update("set", Undef, NoTask, NoPatch, finalData))
    /\ loadingQ' = IfMounted(loadingQ, FALSE)
    /\ errorQ' = errorQ
    /\ loadPc' = "done"

\* await fetch('/tasks.json') settles, lines 83-84
FetchSettle ==
    /\ loadPc = "fetch"
    /\ \E r \in FetchOutcomes :
          /\ IF r.kind = "ok"
             THEN /\ loadPc' = "json"
                  /\ UNCHANGED <<tasksQ, loadingQ, errorQ, response, anchor, log>>
             ELSE /\ loadFailed(r)
                  /\ response' = r
                  /\ Forget
    /\ UNCHANGED <<cells, lastDeletedQ, undoOpenQ, isMounted, now, uuidCount, scenario>>

\* await res.json() settles and the rest of the try block runs, lines 85-89
JsonSettle ==
    /\ loadPc = "json"
    /\ \E body \in Bodies :
          /\ response' = body
          /\ IF body.kind = "unparsable"
             THEN loadFailed(body) /\ uuidCount' = uuidCount
             ELSE LET n == normalizeTasks(body, now, uuidCount)
                  IN  /\ uuidCount' = n.uuid
                      /\ IF n.ok THEN loadSucceeded(FinalData(n.tasks))
                                 ELSE loadFailed(n)
    /\ Forget
    /\ UNCHANGED <<cells, lastDeletedQ, undoOpenQ, isMounted, now, scenario>>

\* the effect's cleanup, lines 98-100: the consuming context is torn down
Unmount ==
    /\ isMounted
    /\ isMounted' = FALSE
    /\ UNCHANGED <<cells, queues, loadPc, now, uuidCount, response, scenario, anchor, log>>

\* time passes
Tick ==
    /\ scenario = "time"
    /\ now < MaxClock
    /\ now' = now + 1
    /\ UNCHANGED <<cells, queues, isMounted, loadPc, uuidCount, response, scenario, anchor, log>>

Next ==
    \/ Render
    \/ AddTask
    \/ UpdateTask
    \/ DeleteTask
    \/ UndoDelete
    \/ ClearUndo
    \/ FetchSettle
    \/ JsonSettle
    \/ Unmount
    \/ Tick

Spec == Init /\ [][Next]_vars

\* The hook under the inputs of scenario "load", where the source answers
\* in every way it can; the clock stands still there.
LoadInit == Init /\ scenario = "load"

LoadNext ==
    \/ Render
    \/ AddTask
    \/ UpdateTask
    \/ DeleteTask
    \/ UndoDelete
    \/ ClearUndo
    \/ FetchSettle
    \/ JsonSettle
    \/ Unmount

\* React renders whenever an update is queued on a mounted component: a
\* render that stays possible is made.  Nothing obliges the environment to
\* answer or to call.
FairSpec == LoadInit /\ [][LoadNext]_vars /\ WF_vars(Render)


----------------------------------------------------------------------------
(* Helpers of the claims.                                                  *)

RemoveAt(ts, i) == SubSeq(ts, 1, i - 1) \o SubSeq(ts, i + 1, Len(ts))

Count(ts, id) == Cardinality({i \in 1..Len(ts) : ts[i].id = id})

\* the recorded row is the calls ops, each in a state where the earlier ones
\* are queued or applied, and all of them are applied by now
Row(ops) ==
    /\ isMounted
    /\ Quiescent
    /\ Len(log) = Len(ops)
    /\ \A i \in 1..Len(ops) : log[i].op = ops[i]

\* the same, each call made with nothing queued: the earlier calls were
\* rendered before it
RowRendered(ops) ==
    /\ Row(ops)
    /\ \A i \in 1..Len(ops) : log[i].q

----------------------------------------------------------------------------
(* C1: deleteTask(t.id) immediately followed by undoDelete, for a task t   *)
(* of the collection and an undo cell that is empty or holds another task, *)
(* leaves the collection as it was with t moved to the end, the held value *)
(* null and the undo window closed.                                        *)

C1_DeleteThenUndo ==
    (/\ Row(<<"delete", "undo">>)
     /\ anchor.lastDeleted # <<>> => anchor.lastDeleted[1].id # log[1].id)
    => \A i \in 1..Len(anchor.tasks) :
          anchor.tasks[i].id = log[1].id
          => /\ tasks = Append(RemoveAt(anchor.tasks, i), anchor.tasks[i])
             /\ lastDeleted = <<>>
             /\ undoOpen = FALSE

\* C1 where each of the two calls is rendered before the next call and t is
\* the only task with its id: this much the code does.
C1_RenderedBetween ==
    (/\ RowRendered(<<"delete", "undo">>)
     /\ Count(anchor.tasks, log[1].id) = 1)
    => \A i \in 1..Len(anchor.tasks) :
          anchor.tasks[i].id = log[1].id
          => /\ tasks = Append(RemoveAt(anchor.tasks, i), anchor.tasks[i])
             /\ lastDeleted = <<>>
             /\ undoOpen = FALSE

C1_RenderedBetween_Witness ==
    /\ RowRendered(<<"delete", "undo">>)
    /\ Len(anchor.tasks) = 2
    /\ anchor.tasks[1].id = log[1].id
    /\ Count(anchor.tasks, log[1].id) = 1
    /\ anchor.lastDeleted # <<>>


----------------------------------------------------------------------------
(* C2: the holding cell has capacity one.  After deleteTask(a) then        *)
(* deleteTask(b), for two different tasks a and b of the collection and no *)
(* undoDelete in between, the held value is b; a following undoDelete      *)
(* re-appends b and nothing else; and a following undoDelete or clearUndo  *)
(* never puts a back into the collection.                                  *)

TwoDeleted ==
    /\ Len(log) >= 2
    /\ log[1].op = "delete" /\ log[2].op = "delete"
    /\ log[1].id # log[2].id
    /\ log[1].id \in Ids(anchor.tasks)
    /\ log[2].id \in Ids(anchor.tasks)

C2_SingleSlot ==
    /\ (Row(<<"delete", "delete">>) /\ TwoDeleted)
       => /\ lastDeleted = Find(anchor.tasks, log[2].id)
          /\ log[1].id \notin Ids(tasks)
    /\ (Row(<<"delete", "delete", "undo">>) /\ TwoDeleted)
       => tasks = Filter(Filter(anchor.tasks, log[1].id), log[2].id)
                    \o Find(anchor.tasks, log[2].id)
    /\ (Row(<<"delete", "delete", "clear">>) /\ TwoDeleted)
       => log[1].id \notin Ids(tasks)

\* C2 where every call is rendered before the next call: this much the code
\* does.
C2_RenderedBetween ==
    /\ (RowRendered(<<"delete", "delete">>) /\ TwoDeleted)
       => /\ lastDeleted = Find(anchor.tasks, log[2].id)
          /\ log[1].id \notin Ids(tasks)
    /\ (RowRendered(<<"delete", "delete", "undo">>) /\ TwoDeleted)
       => tasks = Filter(Filter(anchor.tasks, log[1].id), log[2].id)
                    \o Find(anchor.tasks, log[2].id)
    /\ (RowRendered(<<"delete", "delete", "clear">>) /\ TwoDeleted)
       => log[1].id \notin Ids(tasks)

C2_RenderedBetween_Witness ==
    RowRendered(<<"delete", "delete", "undo">>) /\ TwoDeleted

----------------------------------------------------------------------------
(* C4: mutation and undo calls are atomic and admitted one after another:  *)
(* each call observes the full effect of every earlier call, also when     *)
(* several calls are made before the next render.  undoDelete is the call  *)
(* that reads the cells (lastDeleted and undoOpen, line 161): what it      *)
(* reads is what the earlier calls have made of the two cells.             *)

\* the cells as the calls made so far leave them
HeldAfterCalls == LastOf(lastDeletedQ \o Rendered.held, lastDeleted)
OpenAfterCalls == LastOf(undoOpenQ \o Rendered.open, undoOpen)

C4_CallsObserveEarlierCalls ==
    [][UndoDelete => (lastDeleted = HeldAfterCalls /\ undoOpen = OpenAfterCalls)]_vars

\* C4's three instances.  One deleteTask is followed by at most one
\* re-append of the held task however often undoDelete is called:
C4_OneReappend ==
    (/\ Row(<<"delete", "undo", "undo">>)
     /\ Count(anchor.tasks, log[1].id) = 1)
    => Count(tasks, log[1].id) <= 1

\* deleteTask immediately followed by undoDelete restores the task deleted:
C4_DeleteUndoRestores ==
    (/\ Row(<<"delete", "undo">>)
     /\ log[1].id \in Ids(anchor.tasks))
    => log[1].id \in Ids(tasks)

\* clearUndo immediately followed by undoDelete restores nothing:
C4_ClearUndoRestoresNothing ==
    Row(<<"clear", "undo">>) => tasks = anchor.tasks

----------------------------------------------------------------------------
(* C9: undoDelete with nothing pending is a no-op.  Called in a state      *)
(* where the cell is empty or the window closed, after clearUndo, after    *)
(* an undoDelete, or after a deleteTask of an unknown id, it leaves the    *)
(* collection as the calls before it left it, appends nothing, and the     *)
(* held value is null.                                                     *)

\* the collection after an undoDelete made from the anchor, the way the
\* undo machine defines it
AfterFirstUndo ==
    IF anchor.lastDeleted # <<>> /\ anchor.undoOpen
    THEN anchor.tasks \o anchor.lastDeleted
    ELSE anchor.tasks

C9_UndoNothingPending ==
    /\ (Row(<<"undo">>) /\ (anchor.lastDeleted = <<>> \/ ~anchor.undoOpen))
       => tasks = anchor.tasks /\ lastDeleted = anchor.lastDeleted
    /\ Row(<<"clear", "undo">>)
       => tasks = anchor.tasks /\ lastDeleted = <<>>
    /\ Row(<<"undo", "undo">>)
       => tasks = AfterFirstUndo /\ lastDeleted = <<>>
    /\ (Row(<<"delete", "undo">>) /\ log[1].id \notin Ids(anchor.tasks))
       => tasks = anchor.tasks /\ lastDeleted = <<>>

\* C9 where undoDelete is called with nothing queued, so that the cells it
\* reads are the cells the earlier calls left: this much the code does.
C9_RenderedBefore ==
    /\ (Row(<<"undo">>) /\ (anchor.lastDeleted = <<>> \/ ~anchor.undoOpen))
       => tasks = anchor.tasks /\ lastDeleted = anchor.lastDeleted
    /\ RowRendered(<<"clear", "undo">>)
       => tasks = anchor.tasks /\ lastDeleted = <<>>
    /\ RowRendered(<<"undo", "undo">>)
       => tasks = AfterFirstUndo /\ lastDeleted = <<>>
    /\ (RowRendered(<<"delete", "undo">>) /\ log[1].id \notin Ids(anchor.tasks))
       => tasks = anchor.tasks /\ lastDeleted = <<>>

C9_RenderedBefore_Witness ==
    /\ RowRendered(<<"clear", "undo">>)
    /\ anchor.lastDeleted # <<>>
    /\ anchor.undoOpen

----------------------------------------------------------------------------
(* C3: every task of the collection has timeTaken > 0 and a revenue that   *)
(* is finite and >= 0, after the load's normalization and after any        *)
(* sequence of addTask, updateTask, deleteTask, undoDelete and clearUndo   *)
(* calls, whatever their inputs.                                           *)

SaneNumbers(t) ==
    /\ GtZero(t.timeTaken)
    /\ t.revenue.k = "num" /\ t.revenue.n >= 0

C3_TimeAndRevenue ==
    \A i \in 1..Len(tasks) : SaneNumbers(tasks[i])

\* C3 for timeTaken alone and for the tasks the load's normalization made
\* (no addTask, no updateTask): this much the code does.
C3_NormalizedTimeTaken ==
    [][(loadPc = "json" /\ loadPc' = "done" /\ tasksQ' # tasksQ)
       => LET data == tasksQ'[Len(tasksQ')].data
          IN  \A i \in 1..Len(data) :
                 GtZero(data[i].timeTaken)]_vars

----------------------------------------------------------------------------
(* C5: when the load fails (the source is unreachable, answers with a      *)
(* non-OK status, returns text that does not parse, or returns data that   *)
(* is not a sequence of task records) and the context is mounted, the      *)
(* error message becomes non-null, nothing is handed to the collection and *)
(* the fallback generator is not invoked.                                  *)

\* a sequence one of whose elements is no record
HasNullItem(a) == \E i \in 1..Len(a.items) : IsNullItem(a.items[i])

LoadFailure(a) ==
    \/ a.kind \in {"reject", "notok", "unparsable", "object"}
    \/ a.kind = "array" /\ HasNullItem(a)

\* the step in which loadTasks settles
LoadSettles == loadPc # "done" /\ loadPc' = "done"

ErrorSurfaced ==
    /\ tasksQ' = tasksQ
    /\ errorQ' # <<>>
    /\ errorQ'[Len(errorQ')] # <<>>

C5_FailedLoad ==
    [][(LoadSettles /\ isMounted /\ LoadFailure(response')) => ErrorSurfaced]_vars

\* C5 for the failures that throw inside the try block (every one but the
\* parsed value that is no array): this much the code does.
C5_ThrownFailure ==
    [][(LoadSettles /\ isMounted /\ LoadFailure(response')
        /\ response'.kind # "object") => ErrorSurfaced]_vars

----------------------------------------------------------------------------
(* C6: when the load succeeds with an empty sequence and the context is    *)
(* mounted, the collection is set to the non-empty output of the fallback  *)
(* generator and the error message stays null; when it succeeds with a     *)
(* non-empty sequence, the generator's output is not used.                 *)

\* the value the load hands to setTasks in this step, as a sequence of at
\* most one
HandedOver ==
    IF /\ Len(tasksQ') = Len(tasksQ) + 1
       /\ SubSeq(tasksQ', 1, Len(tasksQ)) = tasksQ
       /\ tasksQ'[Len(tasksQ')].op = "set"
    THEN <<tasksQ'[Len(tasksQ')].data>>
    ELSE <<>>

\* the next render makes the collection the value the load handed over
SetIsLast == tasksQ # <<>> /\ tasksQ[Len(tasksQ)].op = "set"

C6_EmptyLoadFallsBack ==
    [][/\ (LoadSettles /\ isMounted /\ response'.kind = "array"
           /\ response'.items = <<>>)
          => /\ HandedOver = <<generateSalesTasks(FallbackCount)>>
             /\ Len(HandedOver[1]) > 0
             /\ error = <<>> /\ errorQ' = <<>>
       /\ (LoadSettles /\ isMounted /\ response'.kind = "array"
           /\ response'.items # <<>> /\ HandedOver # <<>>)
          => /\ Len(HandedOver[1]) = Len(response'.items)
             /\ \A i \in 1..Len(HandedOver[1]) : HandedOver[1][i].id.k # "seed"
       /\ (SetIsLast /\ tasksQ' = <<>>)
          => tasks' = tasksQ[Len(tasksQ)].data]_vars

C6_EmptyLoadFallsBack_Witness ==
    /\ response.kind = "array" /\ response.items = <<>>
    /\ isMounted /\ loadPc = "done" /\ Quiescent
    /\ tasks = generateSalesTasks(FallbackCount)
    /\ error = <<>>
    /\ ~loading

----------------------------------------------------------------------------
(* C7: if the context is torn down before the load settles, the load's     *)
(* result is discarded, on success and on failure: after the teardown the  *)
(* load changes neither the collection, nor the error message, nor the     *)
(* loading flag (and queues nothing on them).                              *)

C7_TornDownLoadDiscarded ==
    [][(~isMounted /\ loadPc' # loadPc)
       => UNCHANGED <<tasks, error, loading, tasksQ, errorQ, loadingQ>>]_vars

\* torn down, the cells never change again
C7_TornDownCellsFrozen ==
    [][~isMounted => UNCHANGED <<tasks, error, loading>>]_vars

C7_TornDownLoadDiscarded_Witness ==
    /\ ~isMounted
    /\ loadPc = "done"
    /\ response.kind = "array" /\ response.items # <<>>
    /\ tasksQ = <<>> /\ loadingQ = <<>>
    /\ tasks = <<>> /\ loading

----------------------------------------------------------------------------
(* C8: a task leaves the collection only through deleteTask.  In every     *)
(* step, every task of the collection is still there with its id, unless   *)
(* the step applies a deleteTask call for its id.  Steps that apply an     *)
(* updateTask call for its id are left aside here: whether updateTask      *)
(* keeps ids is C12's matter.                                              *)

CallQueued(op, id) ==
    \E j \in 1..Len(tasksQ) : tasksQ[j].op = op /\ tasksQ[j].id = id

C8_OnlyDeleteRemoves ==
    [][\A i \in 1..Len(tasks) :
          \/ tasks[i].id \in Ids(tasks')
          \/ CallQueued("delete", tasks[i].id)
          \/ CallQueued("update", tasks[i].id)]_vars

----------------------------------------------------------------------------
(* C10: for a task whose status is not Done, an updateTask whose merged    *)
(* status is Done sets completedAt to the time of the update, and that     *)
(* time is >= the task's createdAt, whatever else the patch carries.       *)

\* the render that applies one updateTask call, and nothing else
UpdateApplied ==
    /\ isMounted
    /\ Len(tasksQ) = 1 /\ tasksQ[1].op = "update"
    /\ tasksQ' = <<>>

\* task i goes from not Done to Done in this step
BecomesDone(i) == tasks[i].status # Done /\ tasks'[i].status = Done

C10_DoneStamp ==
    [][UpdateApplied
       => \A i \in 1..Len(tasks) :
             BecomesDone(i)
             => /\ tasks'[i].completedAt.k = "iso"
                /\ ~tasksQ[1].eager => tasks'[i].completedAt = Iso(now)
                /\ tasks'[i].createdAt.k = "iso"
                /\ tasks'[i].createdAt.n <= tasks'[i].completedAt.n]_vars

\* C10 without the comparison with createdAt: the stamp is the time the
\* updater ran.  This much the code does.
C10_StampIsUpdateTime ==
    [][UpdateApplied
       => \A i \in 1..Len(tasks) :
             BecomesDone(i)
             => /\ tasks'[i].completedAt.k = "iso"
                /\ ~tasksQ[1].eager => tasks'[i].completedAt = Iso(now)]_vars

----------------------------------------------------------------------------
(* C11: for a task whose status is Done, an updateTask whose merged status *)
(* is not Done leaves completedAt as it was before the call, neither       *)
(* cleared nor refreshed; and a later transition back to Done overwrites   *)
(* it with the time of that update.  The step looked at is the one in      *)
(* which the updater runs: the render that applies the call, or the call   *)
(* itself when the state is computed eagerly.                              *)

\* the updater of one updateTask call runs in the render of this step
RanAtRender == UpdateApplied /\ ~tasksQ[1].eager

\* the updater of one updateTask call runs in the call of this step
RanEagerly ==
    /\ tasksQ = <<>>
    /\ Len(tasksQ') = 1 /\ tasksQ'[1].op = "update" /\ tasksQ'[1].eager

LeavesDoneKeepsStamp(before, after, patch) ==
    /\ Len(after) = Len(before)
    /\ \A i \in 1..Len(before) :
          /\ (before[i].status = Done /\ after[i].status # Done
              /\ patch.completedAt = Absent)
             => after[i].completedAt = before[i].completedAt
          /\ (before[i].status # Done /\ before[i].completedAt # Undef
              /\ after[i].status = Done)
             => after[i].completedAt = Iso(now)

----------------------------------------------------------------------------
(* C12: task ids are immutable.  For every id and every patch,             *)
(* updateTask(id, patch) leaves the id of every task of the collection as  *)
(* it was, position by position.                                           *)

SameIds(before, after) ==
    /\ Len(after) = Len(before)
    /\ \A i \in 1..Len(before) : after[i].id = before[i].id

C12_IdsImmutable ==
    [][/\ RanAtRender => SameIds(tasks, tasks')
       /\ RanEagerly => SameIds(tasks, tasksQ'[1].data)]_vars

\* C12 for the patches that carry no id: this much the code does.
C12_PatchWithoutId ==
    [][/\ (RanAtRender /\ tasksQ[1].patch.id = Absent) => SameIds(tasks, tasks')
       /\ (RanEagerly /\ tasksQ'[1].patch.id = Absent)
          => SameIds(tasks, tasksQ'[1].data)]_vars

----------------------------------------------------------------------------
(* C13: task ids are unique.  In every reachable state, after any sequence *)
(* of load, addTask (with or without an id supplied by the caller),        *)
(* updateTask, deleteTask, undoDelete and clearUndo, no two tasks of the   *)
(* collection have the same id.                                            *)

C13_UniqueIds ==
    \A i, j \in 1..Len(tasks) : i # j => tasks[i].id # tasks[j].id

----------------------------------------------------------------------------
(* C14: whenever the collection is empty (initially, after a failed load,  *)
(* after every task has been deleted) the exposed metrics are the fixed    *)
(* sentinel: the five numbers are 0 and the grade is "Needs Improvement";  *)
(* whenever it is not empty, totalTimeTaken is the sum of timeTaken over   *)
(* the collection.                                                         *)

\* the finite timeTaken of the first i tasks of ts, added from the last
RECURSIVE FiniteTotal(_, _)
FiniteTotal(ts, i) ==
    IF i = 0 THEN 0
    ELSE (IF ToNumber(ts[i].timeTaken).k = "num" THEN ts[i].timeTaken.n ELSE 0)
         + FiniteTotal(ts, i - 1)

\* the sum of the timeTaken of ts, told from what the values are and not
\* by adding them one after another: not a number when one of them is not,
\* or when both infinities are among them
SumOfTimeTaken(ts) ==
    LET has(k) == \E i \in 1..Len(ts) : ToNumber(ts[i].timeTaken).k = k
    IN  CASE has("nan") \/ (has("inf") /\ has("ninf")) -> NaN
          [] has("inf") -> PosInf
          [] has("ninf") -> NegInf
          [] OTHER -> Num(FiniteTotal(ts, Len(ts)))

C14_Metrics ==
    LET m == metrics(tasks)
    IN  /\ Len(tasks) = 0
           => /\ m.totalRevenue = Num(0) /\ m.totalTimeTaken = Num(0)
              /\ m.timeEfficiencyPct = Num(0) /\ m.revenuePerHour = Num(0)
              /\ m.averageROI = Num(0)
              /\ m.performanceGrade = Str("Needs Improvement")
        /\ Len(tasks) > 0 => m.totalTimeTaken = SumOfTimeTaken(tasks)

\* the collection is empty because its only task was deleted
C14_Metrics_Witness ==
    /\ isMounted /\ Quiescent
    /\ tasks = <<>>
    /\ lastDeleted # <<>>
    /\ metrics(tasks) = INITIAL_METRICS

\* and a collection of two tasks, whose times add up
C14_TwoTasks_Witness ==
    /\ Len(tasks) = 2
    /\ metrics(tasks).totalTimeTaken = Num(4)

----------------------------------------------------------------------------
(* C15: deleteTask(id) with an id that no task of the collection has does  *)
(* not fail and leaves the collection as it was, but still overwrites the  *)
(* holding cell with null and opens the undo window; a task held from an   *)
(* earlier deleteTask is then out of reach of undoDelete.                  *)

UnknownId == log # <<>> /\ log[1].id \notin Ids(anchor.tasks)

----------------------------------------------------------------------------
(* C16: updateTask(id, patch) with an id that no task of the collection    *)
(* has is a silent no-op: the collection (contents and order), the held    *)
(* value and the undo flag are unchanged, also when id is the id of the    *)
(* held task, whose held copy the patch does not touch.  The step looked   *)
(* at is the one in which the updater runs.                                *)

C16_UpdateUnknownId ==
    [][/\ (RanEagerly /\ tasksQ'[1].id \notin Ids(tasks))
          => /\ tasksQ'[1].data = tasks
             /\ lastDeletedQ' = <<>> /\ undoOpenQ' = <<>>
             /\ UNCHANGED cells
       /\ (RanAtRender /\ tasksQ[1].id \notin Ids(tasks)
           /\ lastDeletedQ = <<>> /\ undoOpenQ = <<>>)
          => /\ tasks' = tasks
             /\ lastDeleted' = lastDeleted
             /\ undoOpen' = undoOpen]_vars

\* the call is queued with the id of the held task, which the collection
\* does not have
C16_UpdateUnknownId_Witness ==
    /\ isMounted
    /\ tasks # <<>>
    /\ lastDeleted # <<>> /\ undoOpen
    /\ Len(tasksQ) = 1 /\ tasksQ[1].op = "update" /\ ~tasksQ[1].eager
    /\ tasksQ[1].id = lastDeleted[1].id
    /\ tasksQ[1].id \notin Ids(tasks)
    /\ lastDeletedQ = <<>> /\ undoOpenQ = <<>>

----------------------------------------------------------------------------
(* C17: the loading flag starts true and stays true while the load has not *)
(* settled; once the load has settled, on the                              *)
(* success path and on the failure path alike, it is eventually false,     *)
(* provided the context is not torn down; and once false it is never true  *)
(* again.                                                                  *)

C17_LoadingCleared ==
    /\ [](loadPc # "done" => loading)
    /\ [][~loading => ~loading']_vars
    /\ (loadPc = "done") ~> (~loading \/ ~isMounted)

\* the load has failed and the flag is cleared
C17_LoadingCleared_Witness ==
    /\ isMounted
    /\ loadPc = "done"
    /\ response.kind \in {"reject", "notok", "unparsable"}
    /\ error # <<>>
    /\ ~loading

\* the same on the success path
C17_LoadedCleared_Witness ==
    /\ isMounted
    /\ loadPc = "done"
    /\ response.kind = "array"
    /\ error = <<>>
    /\ tasks # <<>>
    /\ ~loading

----------------------------------------------------------------------------
(* C18: in every reachable state, a held value that is not null implies    *)
(* that the undo window is open.  The converse need not hold: deleting an  *)
(* unknown id opens the window with a null held value.                     *)

C18_HeldImpliesOpen ==
    lastDeleted # <<>> => undoOpen

\* a task is held, and the window is open
C18_HeldImpliesOpen_Witness ==
    /\ isMounted /\ Quiescent
    /\ lastDeleted # <<>>
    /\ undoOpen

\* the converse fails: the window is open and nothing is held
C18_OpenWithoutHeld_Witness ==
    /\ isMounted /\ Quiescent
    /\ lastDeleted = <<>>
    /\ undoOpen

----------------------------------------------------------------------------
(* C19: a held task is never in the collection at the same time.  In       *)
(* every reachable state, if the holding cell holds a task of id x then no *)
(* task of the collection has the id x, under any interleaving of          *)
(* deleteTask, addTask, undoDelete, clearUndo and the settling of the      *)
(* load.                                                                   *)

C19_HeldNotInCollection ==
    lastDeleted # <<>> => lastDeleted[1].id \notin Ids(tasks)

============================================================================
